---- MODULE Spec2Model ----
(***************************************************************************)
(* Model of src/proxy/app/db_manager.py: DBConfig (validation and lazy     *)
(* connection-string resolution) and DBManager (pool lifecycle, scoped     *)
(* acquisition with rebuild-and-retry, scoped release).                    *)
(*                                                                         *)
(* The asyncpg pool and the identity provider are the environment: each    *)
(* awaited pool call is a suspension point whose result (a value, a        *)
(* PostgresError or another Exception) is an input drawn with \E.  Every   *)
(* action runs one coroutine from one resumption to its next suspension.   *)
(***************************************************************************)
EXTENDS Integers, Sequences, FiniteSets, TLC

\* ------------------------------------------------------------------ bounds
\* operations (create_pool, close_pool, scopes) the callers start in a run
MaxOps == 3

\* the callers (coroutines) sharing one manager instance
Tasks == {"A", "B"}

\* --------------------------------------------------------- python values
\* Python's None, for a string argument or field
NoneS == [none |-> TRUE, s |-> <<>>]

\* a Python str, as its sequence of characters
Str(s) == [none |-> FALSE, s |-> s]

\* Python truthiness of an optional str: None and "" are falsy
Truthy(v) == ~v.none /\ Len(v.s) > 0

RECURSIVE LStrip(_)
\* str.lstrip(): drop the leading blanks
LStrip(s) == IF s # <<>> /\ Head(s) = " " THEN LStrip(Tail(s)) ELSE s

RECURSIVE RStrip(_)
\* str.rstrip(): drop the trailing blanks
RStrip(s) ==
    IF s # <<>> /\ s[Len(s)] = " " THEN RStrip(SubSeq(s, 1, Len(s) - 1)) ELSE s

\* str.strip()
Strip(s) == RStrip(LStrip(s))

\* `x.strip() if x else None`
StripOrNone(v) == IF Truthy(v) THEN Str(Strip(v.s)) ELSE NoneS

\* f"{x}" of an optional str: None formats as the text None
Fmt(v) == IF v.none THEN <<"None">> ELSE v.s

\* fastapi.HTTPException(status_code, detail); text is the lower-level error
\* text embedded in detail ("" when the detail embeds none)
HTTPException(status_code, detail, text) ==
    [kind |-> "http", status_code |-> status_code, detail |-> detail, text |-> text]

\* an error that is not an HTTPException, escaping as raised
RawError(text) ==
    [kind |-> "raw", status_code |-> 0, detail |-> "", text |-> text]

\* no error
NoError == [kind |-> "ok", status_code |-> 0, detail |-> "", text |-> ""]

\* ----------------------------------------------------------------- DBConfig
\* mutant: the two missing-setting tests joined by `and`
HostUserMissingAnd(host, user) == ~Truthy(host) /\ ~Truthy(user)

\* `not host or not user`
HostUserMissing(host, user) == ~Truthy(host) \/ ~Truthy(user)

\* the validation of DBConfig.__init__, on the raw arguments
ConfigError(a) ==
    IF ~Truthy(a.connection_string) /\ HostUserMissing(a.host, a.user)
    THEN HTTPException(500,
            "Please set the environment variables POSTGRES_SERVER, POSTGRES_USER", "")
    ELSE IF ~Truthy(a.encryption_key)
    THEN HTTPException(500,
            "Please set the environment variable POSTGRES_ENCRYPTION_KEY", "")
    ELSE NoError

\* the fields DBConfig.__init__ stores
ConfigFields(a) ==
    [host |-> StripOrNone(a.host),
     port |-> a.port,
     database |-> StripOrNone(a.database),
     user |-> StripOrNone(a.user),
     password |-> StripOrNone(a.password),
     encryption_key |-> StripOrNone(a.encryption_key),
     connection_string |-> StripOrNone(a.connection_string)]

\* the connection string synthesized from the discrete fields
SynthConnectionString(c) ==
    <<"postgresql://">> \o Fmt(c.user) \o <<":">> \o Fmt(c.password) \o <<"@">>
        \o Fmt(c.host) \o <<":">> \o <<ToString(c.port)>> \o <<"/">> \o Fmt(c.database)

\* the bearer token the identity provider returns to its n-th caller
Token(n) == <<"t", ToString(n)>>

\* mutant: the supplied connection string is not looked at first
NeedsTokenNoCs(c) == ~Truthy(c.password)

\* whether get_connection_string calls the identity provider
NeedsToken(c) == ~Truthy(c.connection_string) /\ ~Truthy(c.password)

\* the password the connection string is built with: the one set, else the
\* token fetched by the n-th call to the identity provider
PasswordUsed(c, n) == IF Truthy(c.password) THEN c.password ELSE Str(Token(n))

\* mutant: the fetched token is not kept in the password field
ConfigAfterResolveNoMemo(c, n) == c

\* the configuration after get_connection_string returned (password memoized)
ConfigAfterResolve(c, n) ==
    IF NeedsToken(c) THEN [c EXCEPT !.password = PasswordUsed(c, n)] ELSE c

\* the value get_connection_string returns
ResolvedString(c, n) ==
    IF Truthy(c.connection_string) THEN c.connection_string.s
    ELSE SynthConnectionString([c EXCEPT !.password = PasswordUsed(c, n)])

\* -------------------------------------------------------------------- state
VARIABLES
    args,        \* the arguments DBConfig was (or is to be) constructed with
    cfgState,    \* "new" before DBConfig.__init__ ran, then "ok" or "failed"
    cfgErr,      \* what DBConfig.__init__ raised
    config,      \* the fields of the DBConfig object
    connOut,     \* what the last get_connection_string call returned or raised
    tokenCalls,  \* calls made to the identity provider
    tokenOk,     \* history: calls to the identity provider that returned a token
    firstCs,     \* history: the first string get_connection_string returned
    db_pool,     \* DBManager.db_pool: NoPool (None) or a pool
    conn,        \* DBManager.conn: NoConn (None) or a connection
    nPools,      \* pools created so far; pool ids are 1..nPools
    poolOpen,    \* the pools that are created and not closed
    out,         \* the connections checked out of open pools
    task,        \* each caller's coroutine: where it is suspended, its locals
    ev,          \* history: what the last step returned or raised to its caller
    overlap,     \* history: create_pool() was called on a manager with a pool open or being created
    ops          \* history: operations started so far

cfgVars == <<args, cfgState, cfgErr>>
resVars == <<config, connOut, tokenCalls, tokenOk, firstCs>>
poolVars == <<db_pool, conn, nPools, poolOpen, out>>
vars == <<cfgVars, resVars, poolVars, task, ev, overlap, ops>>

\* DBManager.db_pool = None
NoPool == 0

\* DBManager.conn = None
NoConn == <<>>

\* max_size passed to asyncpg.create_pool
max_size == 30

\* the results of an awaited pool call: a value, a PostgresError, another Exception
Outcomes == {"ok", "pgerr", "other"}

\* str(error) of a failed pool call
ErrText(o) == IF o = "pgerr" THEN "PostgresError" ELSE "Exception"

\* how a scope body can end
Hows == {"return", "error", "cancel"}

\* A caller that is in no DBManager method and in no scope.  pc: "idle",
\* "acquire" / "closing" / "creating" (suspended in that pool call), "body"
\* (inside the scope, holding got).  ctx: the operation the caller called
\* ("create_pool", "close_pool", "enter").  retry: the local of __aenter__.  tgt: the pool object
\* the pending call was made on.  closes, creates, log: the close_pool calls,
\* create_pool calls and acquire() results of the enter in progress; rebuilt:
\* its rebuild cycles that ran to the end (close_pool and create_pool returned).
IdleTask ==
    [pc |-> "idle", ctx |-> "none", retry |-> 0, tgt |-> NoPool, got |-> NoConn,
     closes |-> 0, creates |-> 0, rebuilt |-> 0, log |-> <<>>]

\* no release() call
NoRelease == [called |-> FALSE, how |-> "return", pool |-> NoPool, c |-> NoConn]

\* a step that returned nothing to a caller
NoEvent ==
    [t |-> "-", op |-> "none", err |-> NoError, attempts |-> 0, closes |-> 0,
     creates |-> 0, rebuilt |-> 0, log |-> <<>>, got |-> NoConn, rel |-> NoRelease]

\* operation op of caller t ended with err (NoError: it returned)
Ended(t, op, err) == [NoEvent EXCEPT !.t = t, !.op = op, !.err = err]

\* __aenter__ of caller t ended with err, its locals being l
EnterEnded(t, err, l) ==
    [NoEvent EXCEPT !.t = t, !.op = "enter", !.err = err, !.attempts = l.retry,
                    !.closes = l.closes, !.creates = l.creates,
                    !.rebuilt = l.rebuilt, !.log = l.log,
                    !.got = l.got]

\* ------------------------------------------------------- DBManager, pieces
\* mutant: the loop admits a fourth attempt
LoopContinues4(r) == r < 4

\* `while retry < 3`
LoopContinues(r) == r < 3

\* mutant: every failed borrow takes the rebuild branch
RebuildsAlways(o) == o # "ok"

\* `except asyncpg.exceptions.PostgresError` of __aenter__: the rebuild branch
Rebuilds(o) == o = "pgerr"

\* mutant: the next attempt borrows from the pool the loop began with
NextTargetStale(old, new) == old

\* `self.db_pool.acquire()` after a rebuild: self.db_pool is read again, and
\* create_pool has just stored the new pool there
NextTarget(old, new) == new

\* mutant: close() leaves the pool open
PoolsAfterCloseNone(open, p, left) == open

\* `await self.db_pool.close()`: the open pools once close() of p is over
\* (left: a close() that raised left the pool open)
PoolsAfterClose(open, p, left) == IF left THEN open ELSE open \ {p}

\* mutant: the borrowed connection is returned without being stored in self.conn
TrackedKeep(old, c) == old

\* `self.conn = await self.db_pool.acquire()`
Tracked(old, c) == c

\* mutant: the detail drops the lower-level text
CreatePoolErrorNoText(text) ==
    HTTPException(503, "Postgres error opening pool exp", "")

\* the HTTPException of create_pool (both except clauses build the same detail)
CreatePoolError(text) ==
    HTTPException(503, "Postgres error opening pool exp", text)

\* the HTTPException of close_pool
ClosePoolError(o, text) ==
    IF o = "pgerr" THEN HTTPException(503, "Postgres error closing pool", text)
    ELSE HTTPException(503, "Postgres exception closing pool", text)

\* the HTTPException of __aenter__ for a non-PostgresError
GeneralError ==
    HTTPException(503, "General error getting connection from pool", "")

\* the HTTPException of __aenter__ after the loop
RetryExceeded ==
    HTTPException(503, "Postgres error getting connection retry exceeded", "")

\* mutant: release only when the scope body ended without an exception
ReleaseCallIfClean(how, pool, c) ==
    [called |-> how = "return", how |-> how, pool |-> pool, c |-> c]

\* `await self.db_pool.release(self.conn)`: the call __aexit__ makes
ReleaseCall(how, pool, c) ==
    [called |-> TRUE, how |-> how, pool |-> pool, c |-> c]

\* whether the pool does release(c): it is open and c was borrowed from it
ReleaseAccepted(pool, c) == pool \in poolOpen /\ c # NoConn /\ c[1] = pool

\* the connections of pool p that are checked out
OutOf(p) == {c \in out : c[1] = p}

\* the connection objects something still refers to
Refs == out \cup {conn} \cup {task[t].got : t \in Tasks}

\* the connection object a successful acquire() on pool p hands out
FreshConn(p) ==
    <<p, CHOOSE k \in 1..(Cardinality(Refs) + 1) :
            /\ <<p, k>> \notin Refs
            /\ \A j \in 1..(k - 1) : <<p, j>> \in Refs>>

\* a caller starts one more operation
StartOp == ops < MaxOps /\ ops' = ops + 1

\* caller t's coroutine becomes l
Goes(t, l) == task' = [task EXCEPT ![t] = l]

\* the operation of caller t, whose locals are l, raises err to the caller
Raise(t, l, err) ==
    /\ Goes(t, IdleTask)
    /\ ev' = IF l.ctx = "enter" THEN EnterEnded(t, err, l) ELSE Ended(t, l.ctx, err)

\* ------------------------------------------------------ DBManager, actions
\* get_connection_string raises: the identity provider was asked and failed
ResolveFails(tok) == NeedsToken(config) /\ tok = "fail"

\* get_connection_string(): tok is what the identity provider does when asked
Resolve(tok) ==
    /\ tokenCalls' = IF NeedsToken(config) THEN tokenCalls + 1 ELSE tokenCalls
    /\ IF ResolveFails(tok)
       THEN /\ connOut' = [err |-> RawError("CredentialError"), s |-> <<>>]
            /\ UNCHANGED <<config, tokenOk, firstCs>>
       ELSE /\ config' = ConfigAfterResolve(config, tokenCalls + 1)
            /\ connOut' = [err |-> NoError, s |-> ResolvedString(config, tokenCalls + 1)]
            /\ tokenOk' = IF NeedsToken(config) THEN tokenOk + 1 ELSE tokenOk
            /\ firstCs' = IF firstCs = <<>>
                          THEN ResolvedString(config, tokenCalls + 1) ELSE firstCs

\* The synchronous head of create_pool, called by t with locals l: the
\* connection string is resolved (tok is what the identity provider does when
\* asked), then asyncpg.create_pool is awaited.
CreateCall(t, l, tok) ==
    /\ Resolve(tok)
    /\ IF ResolveFails(tok)
       THEN Raise(t, l, CreatePoolError("CredentialError"))
       ELSE /\ Goes(t, [l EXCEPT !.pc = "creating"])
            /\ ev' = NoEvent

\* create_pool() called by a caller, up to its await
CreateStart(t, tok) ==
    /\ task[t].pc = "idle"
    /\ StartOp
    /\ CreateCall(t, [IdleTask EXCEPT !.ctx = "create_pool"], tok)
    /\ overlap' = (overlap \/ db_pool \in poolOpen
                           \/ \E u \in Tasks : task[u].pc = "creating")
    /\ UNCHANGED <<cfgVars, poolVars>>

\* asyncpg.create_pool completes with o; inside __aenter__ the loop then goes
\* on to its next acquire() or leaves with the retry-exceeded error
CreateDone(t, o) ==
    /\ task[t].pc = "creating"
    /\ IF o = "ok"
       THEN /\ nPools' = nPools + 1
            /\ poolOpen' = poolOpen \cup {nPools + 1}
            /\ db_pool' = nPools + 1
            /\ IF task[t].ctx = "create_pool"
               THEN /\ Goes(t, IdleTask)
                    /\ ev' = Ended(t, "create_pool", NoError)
               ELSE IF LoopContinues(task[t].retry)
               THEN /\ Goes(t, [task[t] EXCEPT !.pc = "acquire", !.retry = @ + 1,
                                               !.tgt = NextTarget(task[t].tgt, nPools + 1),
                                               !.rebuilt = @ + 1])
                    /\ ev' = NoEvent
               ELSE Raise(t, [task[t] EXCEPT !.rebuilt = @ + 1], RetryExceeded)
       ELSE /\ Raise(t, task[t], CreatePoolError(ErrText(o)))
            /\ UNCHANGED <<nPools, poolOpen, db_pool>>
    /\ UNCHANGED <<cfgVars, resVars, conn, out, overlap, ops>>

\* close_pool() called by a caller, up to its await; with no pool object the
\* attribute lookup fails inside the try and is translated
CloseStart(t) ==
    /\ task[t].pc = "idle"
    /\ StartOp
    /\ IF db_pool = NoPool
       THEN Raise(t, [IdleTask EXCEPT !.ctx = "close_pool"],
                  ClosePoolError("other", "AttributeError"))
       ELSE /\ Goes(t, [IdleTask EXCEPT !.pc = "closing", !.ctx = "close_pool",
                                        !.tgt = db_pool])
            /\ ev' = NoEvent
    /\ UNCHANGED <<cfgVars, resVars, poolVars, overlap>>

\* pool.close() completes with o (after a failure the pool may or may not be
\* closed: left says which); inside __aenter__ create_pool is then called
CloseDone(t, o, left, tok) ==
    /\ task[t].pc = "closing"
    /\ o = "ok" => ~left
    /\ poolOpen' = PoolsAfterClose(poolOpen, task[t].tgt, left)
    /\ out' = {c \in out : c[1] \in poolOpen'}
    /\ IF o # "ok"
       THEN /\ Raise(t, task[t], ClosePoolError(o, ErrText(o)))
            /\ UNCHANGED resVars
       ELSE IF task[t].ctx = "close_pool"
       THEN /\ Goes(t, IdleTask)
            /\ ev' = Ended(t, "close_pool", NoError)
            /\ UNCHANGED resVars
       ELSE CreateCall(t, [task[t] EXCEPT !.creates = @ + 1], tok)
    /\ UNCHANGED <<cfgVars, db_pool, conn, nPools, overlap, ops>>

\* __aenter__ up to its first await: retry becomes 1 and acquire() is called
\* on self.db_pool.  With no pool object the attribute lookup fails, and a
\* closed pool refuses the borrow at once (asyncpg's InterfaceError): neither
\* is a PostgresError, so both leave through `except Exception`.
EnterStart(t) ==
    /\ task[t].pc = "idle"
    /\ StartOp
    /\ LoopContinues(0)
    /\ IF db_pool = NoPool \/ db_pool \notin poolOpen
       THEN Raise(t, [IdleTask EXCEPT !.ctx = "enter", !.retry = 1, !.log = <<"other">>],
                  GeneralError)
       ELSE /\ Goes(t, [IdleTask EXCEPT !.pc = "acquire", !.ctx = "enter", !.retry = 1,
                                        !.tgt = db_pool])
            /\ ev' = NoEvent
    /\ UNCHANGED <<cfgVars, resVars, poolVars, overlap>>

\* pool.acquire() completes with o: a connection is stored and returned, or
\* the PostgresError handler calls close_pool, or another error aborts
AcquireDone(t, o) ==
    /\ task[t].pc = "acquire"
    /\ LET l == [task[t] EXCEPT !.log = Append(@, o)]
           c == FreshConn(task[t].tgt)
       IN  IF o = "ok"
           THEN /\ task[t].tgt \in poolOpen
                /\ Cardinality(OutOf(task[t].tgt)) < max_size
                /\ conn' = Tracked(conn, c)
                /\ out' = out \cup {c}
                /\ Goes(t, [IdleTask EXCEPT !.pc = "body", !.got = c])
                /\ ev' = EnterEnded(t, NoError, [l EXCEPT !.got = c])
           ELSE IF Rebuilds(o)
           THEN /\ Goes(t, [l EXCEPT !.pc = "closing", !.tgt = db_pool, !.closes = @ + 1])
                /\ ev' = NoEvent
                /\ UNCHANGED <<conn, out>>
           ELSE /\ Raise(t, l, GeneralError)
                /\ UNCHANGED <<conn, out>>
    /\ UNCHANGED <<cfgVars, resVars, db_pool, nPools, poolOpen, overlap, ops>>

\* the scope body ends (how) and __aexit__ runs: release(self.conn) is called
\* on self.db_pool and completes with o; nothing translates what it raises
Exit(t, how, o) ==
    /\ task[t].pc = "body"
    /\ LET rel == ReleaseCall(how, db_pool, conn)
       IN  /\ o = "ok" => ~rel.called \/ ReleaseAccepted(db_pool, conn)
           /\ out' = IF rel.called /\ ReleaseAccepted(db_pool, conn)
                     THEN out \ {conn} ELSE out
           /\ ev' = [Ended(t, "exit", IF o = "ok" THEN NoError ELSE RawError(ErrText(o)))
                       EXCEPT !.rel = rel, !.got = task[t].got]
    /\ Goes(t, IdleTask)
    /\ UNCHANGED <<cfgVars, resVars, db_pool, conn, nPools, poolOpen, overlap, ops>>

\* the error a cancelled await raises; no except clause of the manager
\* catches it
Cancelled == RawError("CancelledError")

\* caller t is cancelled while suspended in acquire(), close() or
\* asyncpg.create_pool(): the await raises CancelledError, which is not an
\* Exception and passes every handler.  A cancelled acquire() hands out no
\* connection, a cancelled create_pool stores no pool, and a cancelled close()
\* has closed the pool or not (left).
Cancel(t, left) ==
    /\ task[t].pc \in {"acquire", "closing", "creating"}
    /\ task[t].pc # "closing" => ~left
    /\ poolOpen' = IF task[t].pc = "closing"
                   THEN PoolsAfterClose(poolOpen, task[t].tgt, left) ELSE poolOpen
    /\ out' = {c \in out : c[1] \in poolOpen'}
    /\ Raise(t, task[t], Cancelled)
    /\ UNCHANGED <<cfgVars, resVars, db_pool, conn, nPools, overlap, ops>>

\* ------------------------------------------------------- DBConfig, actions
\* the object before __init__ stored anything
EmptyConfig ==
    [host |-> NoneS, port |-> 0, database |-> NoneS, user |-> NoneS,
     password |-> NoneS, encryption_key |-> NoneS, connection_string |-> NoneS]

\* DBConfig(...): the fields are stored, then the arguments are validated
Construct ==
    /\ cfgState = "new"
    /\ config' = ConfigFields(args)
    /\ cfgErr' = ConfigError(args)
    /\ cfgState' = IF ConfigError(args) = NoError THEN "ok" ELSE "failed"
    /\ UNCHANGED <<args, connOut, tokenCalls, tokenOk, firstCs, poolVars, task, ev,
                   overlap, ops>>

\* get_connection_string() called on the configuration; tok is what the
\* identity provider does when asked
GetConnectionString(tok) ==
    /\ cfgState = "ok"
    /\ StartOp
    /\ Resolve(tok)
    /\ ev' = NoEvent
    /\ UNCHANGED <<cfgVars, poolVars, task, overlap>>

\* ------------------------------------------------------------ specifications
\* the argument values tried for host, user, encryption_key, connection_string
StrIn ==
    {NoneS, Str(<<>>), Str(<<" ">>), Str(<<"a">>), Str(<<" ", "a", " ">>)}

\* every argument list tried for DBConfig
ArgSpace ==
    [host : StrIn, port : {5432}, database : {NoneS, Str(<<"d">>)}, user : StrIn,
     password : {NoneS, Str(<<" ">>), Str(<<"p">>)}, encryption_key : StrIn,
     connection_string : StrIn]

\* the configurations the manager is run with: a connection string, a static
\* password, and neither (identity-based authentication)
ManagerArgs ==
    {a \in ArgSpace :
        /\ a.host = Str(<<"a">>) /\ a.user = Str(<<"a">>)
        /\ a.database = Str(<<"d">>) /\ a.encryption_key = Str(<<"a">>)
        /\ \/ a.connection_string = Str(<<"a">>) /\ a.password = NoneS
           \/ a.connection_string = NoneS /\ a.password # Str(<<" ">>)}

\* DBManager.__init__, and the histories empty
InitManager ==
    /\ tokenCalls = 0
    /\ tokenOk = 0
    /\ firstCs = <<>>
    /\ db_pool = NoPool
    /\ conn = NoConn
    /\ nPools = 0
    /\ poolOpen = {}
    /\ out = {}
    /\ task = [t \in Tasks |-> IdleTask]
    /\ ev = NoEvent
    /\ overlap = FALSE
    /\ ops = 0

\* a manager constructed on a valid configuration
Init ==
    /\ args \in ManagerArgs
    /\ cfgState = "ok"
    /\ cfgErr = NoError
    /\ config = ConfigFields(args)
    /\ connOut = [err |-> NoError, s |-> <<>>]
    /\ InitManager

Next ==
    \E t \in Tasks :
        \/ \E tok \in {"ok", "fail"} : CreateStart(t, tok)
        \/ \E o \in Outcomes : CreateDone(t, o)
        \/ CloseStart(t)
        \/ \E o \in Outcomes, left \in BOOLEAN, tok \in {"ok", "fail"} : CloseDone(t, o, left, tok)
        \/ EnterStart(t)
        \/ \E o \in Outcomes : AcquireDone(t, o)
        \/ \E how \in Hows, o \in Outcomes : Exit(t, how, o)
        \/ \E tok \in {"ok", "fail"} : GetConnectionString(tok)
        \/ \E left \in BOOLEAN : Cancel(t, left)

Spec == Init /\ [][Next]_vars

\* the pool operation caller t is suspended in completes, one way or another
PoolOpDone(t) ==
    \/ \E o \in Outcomes : AcquireDone(t, o)
    \/ \E o \in Outcomes, left \in BOOLEAN, tok \in {"ok", "fail"} : CloseDone(t, o, left, tok)
    \/ \E o \in Outcomes : CreateDone(t, o)

\* every awaited pool operation (acquire, close, create_pool) completes
SpecFair == Spec /\ \A t \in Tasks : WF_vars(PoolOpDone(t))

\* the arguments of a DBConfig about to be constructed
InitConfig ==
    /\ args \in ArgSpace
    /\ cfgState = "new"
    /\ cfgErr = NoError
    /\ config = EmptyConfig
    /\ connOut = [err |-> NoError, s |-> <<>>]
    /\ InitManager

NextConfig ==
    \/ Construct
    \/ \E tok \in {"ok", "fail"} : GetConnectionString(tok)

SpecConfig == InitConfig /\ [][NextConfig]_vars

\* ------------------------------------------------------------------ claims
\* three pool-level failures in a row
P3 == <<"pgerr", "pgerr", "pgerr">>

\* C1: an acquisition whose 3 borrow attempts each failed with a pool-level
\* error, and whose rebuilds all succeeded, ends with the 503 retry-exceeded
\* error after exactly 3 borrow attempts and exactly 3 rebuild cycles (3
\* close_pool calls, 3 create_pool calls); no caller goes on after them.
C1_RetryExceeded ==
    /\ \A t \in Tasks : ~(task[t].log = P3 /\ task[t].rebuilt = 3)
    /\ (ev.op = "enter" /\ ev.log = P3 /\ ev.rebuilt = 3) =>
          /\ ev.err = RetryExceeded
          /\ ev.err.status_code = 503
          /\ ev.attempts = 3
          /\ ev.closes = 3
          /\ ev.creates = 3

\* C1 happens: an acquisition ended after three pool-level failures and three rebuilds
C1_Witness == ev.op = "enter" /\ ev.log = P3 /\ ev.rebuilt = 3 /\ ev.err = RetryExceeded

\* C2: a step in which a borrow attempt (the 1st, 2nd or 3rd) fails with a
\* non-pool-level error ends the acquisition with a 503 error: no further
\* attempt, no close_pool or create_pool for that failure, pool handle and
\* pools unchanged.
C2_UnexpectedAborts ==
    [][(ev'.op = "enter" /\ ev'.log # <<>> /\ ev'.log[Len(ev'.log)] = "other") =>
          /\ ev'.err.kind = "http" /\ ev'.err.status_code = 503
          /\ ev'.err = GeneralError
          /\ task'[ev'.t].pc = "idle"
          /\ ev'.attempts = Len(ev'.log)
          /\ ev'.closes = Len(ev'.log) - 1
          /\ ev'.creates = Len(ev'.log) - 1
          /\ db_pool' = db_pool /\ poolOpen' = poolOpen /\ nPools' = nPools]_vars

\* C2 happens: the third attempt failed with an unexpected error
C2_Witness ==
    ev.op = "enter" /\ ev.log = <<"pgerr", "pgerr", "other">> /\ ev.err = GeneralError

\* C3: a step in which __aenter__ returns normally returns a connection that
\* this step borrowed from the pool the borrow was made on, and that connection
\* is the manager's tracked connection; when the first borrow succeeds there
\* was one attempt and no rebuild.
C3_EnterReturnsTracked ==
    [][(ev'.op = "enter" /\ ev'.err = NoError) =>
          /\ ev'.got # NoConn
          /\ ev'.got \notin out /\ ev'.got \in out'
          /\ ev'.got[1] = task[ev'.t].tgt /\ ev'.got[1] \in poolOpen
          /\ conn' = ev'.got
          /\ task'[ev'.t].pc = "body" /\ task'[ev'.t].got = ev'.got
          /\ ev'.log[Len(ev'.log)] = "ok"
          /\ (ev'.log = <<"ok">> =>
                ev'.attempts = 1 /\ ev'.closes = 0 /\ ev'.creates = 0 /\ db_pool' = db_pool)]_vars

\* C3 happens: an acquisition returned on its first attempt
C3_Witness ==
    /\ ev.op = "enter" /\ ev.err = NoError /\ ev.log = <<"ok">>
    /\ task[ev.t].pc = "body" /\ conn = task[ev.t].got

\* C4: every step that leaves a scope calls release on the manager's pool
\* with the manager's tracked connection, however the scope body ended.
C4_ExitReleases ==
    [][\A t \in Tasks : (task[t].pc = "body" /\ task'[t].pc # "body") =>
          /\ ev'.op = "exit" /\ ev'.t = t
          /\ ev'.rel.called
          /\ ev'.rel.how \in Hows
          /\ ev'.rel.c = conn /\ conn # NoConn
          /\ ev'.rel.pool = db_pool /\ db_pool # NoPool]_vars

\* C4 happens: a scope left by cancellation released its connection
C4_Witness ==
    /\ ev.op = "exit" /\ ev.rel.called /\ ev.rel.how = "cancel"
    /\ ev.rel.c = ev.got /\ ev.got \notin out

\* C5, as claimed: with one pool, never closed or replaced, once every scope
\* has exited no connection is checked out.
C5_AllReturned ==
    (nPools = 1 /\ poolOpen = {1} /\ \A t \in Tasks : task[t].pc = "idle") => out = {}

\* C6, as claimed: at most one pool of the manager is live (callers that call
\* create_pool on a manager whose pool is open or being created are left out).
C6_OneLivePool == ~overlap => Cardinality(poolOpen) <= 1

\* a step in which create_pool, called by t, raised (and was not cancelled):
\* asyncpg.create_pool made no pool, or the identity provider was asked and the
\* password stayed unset
CreateFailed(t) ==
    /\ task'[t] # task[t]
    /\ ev'.err # Cancelled
    /\ \/ task[t].pc = "creating" /\ nPools' = nPools
       \/ tokenCalls' # tokenCalls /\ NeedsToken(config')

\* C7: a step in which create_pool fails raises a 503 error carrying the
\* lower-level error text, and stores no pool handle: db_pool is what it was
\* (None when it was None) and no pool was added.
C7_CreateFailure ==
    [][\A t \in Tasks : CreateFailed(t) =>
          /\ ev'.t = t /\ ev'.op \in {"create_pool", "enter"}
          /\ ev'.err.kind = "http" /\ ev'.err.status_code = 503
          /\ ev'.err.text \in {"PostgresError", "Exception", "CredentialError"}
          /\ ev'.err = CreatePoolError(ev'.err.text)
          /\ db_pool' = db_pool /\ nPools' = nPools /\ poolOpen' \subseteq poolOpen
          /\ task'[t].pc = "idle"]_vars

\* C7 happens: create_pool failed on a manager without a pool
C7_Witness ==
    /\ ev.op = "create_pool" /\ ev.err.status_code = 503
    /\ ev.err.text = "PostgresError" /\ db_pool = NoPool

\* C8, as claimed: the manager starts without a pool, has an open pool when
\* create_pool returns, has no open pool when close_pool returns, and an
\* acquisition started without an open pool ends at once without a connection
\* (callers that call create_pool on a manager whose pool is open or being
\* created are left out).
C8_Lifecycle ==
    [][/\ (ev'.op = "create_pool" /\ ev'.err = NoError) => db_pool' \in poolOpen'
       /\ (ev'.op = "close_pool" /\ ev'.err = NoError /\ ~overlap') => db_pool' \notin poolOpen'
       /\ \A t \in Tasks :
            (task[t].pc = "idle" /\ ev'.t = t /\ ev'.op = "enter" /\ db_pool \notin poolOpen)
                => ev'.err # NoError /\ task'[t].got = NoConn]_vars

\* C9, as claimed: whatever an operation of the manager raises when it fails
\* (a cancellation is not a failure) is an HTTPException with status 503.
C9_OnlyServiceErrors ==
    ev.err.kind # "ok" /\ ev.err # Cancelled =>
        ev.err.kind = "http" /\ ev.err.status_code = 503

\* an argument that is None or the empty string
Absent(v) == v.none \/ v.s = <<>>

\* C10: DBConfig(...) raises, and then a 500 error, exactly when the connection
\* string is absent and host or user is absent, or the encryption key is
\* absent (absent: None or empty; the test reads the arguments as passed).
C10_ConstructionFails ==
    cfgState # "new" =>
        /\ cfgState = "failed" <=>
              \/ Absent(args.connection_string) /\ (Absent(args.host) \/ Absent(args.user))
              \/ Absent(args.encryption_key)
        /\ cfgState = "failed" => cfgErr.kind = "http" /\ cfgErr.status_code = 500
        /\ cfgState = "ok" => cfgErr = NoError

\* C10 happens: a user alone is missing and construction failed
C10_Witness ==
    /\ cfgState = "failed" /\ cfgErr.status_code = 500
    /\ Absent(args.connection_string) /\ ~Absent(args.host) /\ Absent(args.user)
    /\ ~Absent(args.encryption_key)

\* C11, as claimed: a constructed configuration has, in its stored fields, a
\* connection string or both host and user, and an encryption key; an
\* argument that is None, empty or blank is stored as unset (None).
C11_StoredFieldsValid ==
    cfgState = "ok" =>
        /\ Truthy(config.connection_string) \/ (Truthy(config.host) /\ Truthy(config.user))
        /\ Truthy(config.encryption_key)
        /\ \A f \in {"host", "user", "encryption_key", "connection_string"} :
              (Absent(args[f]) \/ Strip(args[f].s) = <<>>) => config[f] = NoneS

\* C12, as claimed: on a configuration constructed with a non-empty
\* connection-string argument, every get_connection_string call returns that
\* argument exactly, the identity provider is never called and the fields stay
\* as constructed.
C12_ReturnsArgument ==
    cfgState = "ok" /\ Truthy(args.connection_string) /\ ops > 0 =>
        /\ connOut = [err |-> NoError, s |-> args.connection_string.s]
        /\ tokenCalls = 0
        /\ config = ConfigFields(args)

\* C12, amended: on a configuration whose connection-string argument is
\* non-empty once trimmed, every get_connection_string call (the 1st, 2nd and
\* 3rd alike) returns the trimmed argument, which is the stored field, whatever
\* the other fields are; the identity provider is never called and the fields
\* stay as constructed.
C12_ReturnsStored ==
    cfgState = "ok" /\ Truthy(StripOrNone(args.connection_string)) /\ ops > 0 =>
        /\ connOut = [err |-> NoError, s |-> Strip(args.connection_string.s)]
        /\ connOut.s = config.connection_string.s
        /\ tokenCalls = 0
        /\ config = ConfigFields(args)

\* get_connection_string was called twice on a configuration built from a
\* padded connection string, with no password and no host
C12_Witness ==
    /\ cfgState = "ok" /\ ops >= 2
    /\ args.connection_string = Str(<<" ", "a", " ">>)
    /\ ~Truthy(args.password) /\ ~Truthy(args.host)
    /\ connOut.s = <<"a">>

\* the configuration has host, user, port and database set, no connection
\* string and no password
IdentityConfig ==
    /\ Truthy(StripOrNone(args.host)) /\ Truthy(StripOrNone(args.user))
    /\ Truthy(StripOrNone(args.database))
    /\ ~Truthy(StripOrNone(args.connection_string)) /\ ~Truthy(StripOrNone(args.password))

\* C13: on a configuration with host, user, port and database set and neither
\* connection string nor password, once a get_connection_string call has
\* succeeded (called directly or by create_pool, in a rebuild cycle or not) the
\* identity provider has returned a token exactly once, every later successful
\* call returns the string the first one returned, built with that token, and
\* with no failed fetch the provider was called exactly once; a configuration
\* with a static password never calls the provider.
C13_TokenMemoized ==
    /\ IdentityConfig /\ firstCs # <<>> =>
          /\ tokenOk = 1
          /\ connOut.err = NoError => connOut.s = firstCs
          /\ config.password.s \in {Token(n) : n \in 1..tokenCalls}
          /\ firstCs = SynthConnectionString(config)
    /\ IdentityConfig /\ firstCs = <<>> => tokenOk = 0
    /\ Truthy(StripOrNone(args.password)) => tokenCalls = 0 /\ tokenOk = 0

\* an acquisition on an identity-configured manager rebuilt the pool after a
\* first create_pool call and a failed token fetch: get_connection_string has
\* succeeded twice, and the provider was called twice
C13_Witness ==
    /\ IdentityConfig /\ tokenCalls = 2 /\ tokenOk = 1
    /\ nPools >= 2
    /\ \E t \in Tasks : task[t].ctx = "enter" /\ task[t].creates >= 1
    /\ connOut = [err |-> NoError, s |-> firstCs]

\* the outcome of caller t's latest borrow attempt
LastOutcome(l) == IF l.log = <<>> THEN "none" ELSE l.log[Len(l.log)]

\* C14: inside one __aenter__, a borrow attempt that failed with a pool-level
\* error is followed by close_pool (and by nothing else); create_pool is
\* called only when that close_pool has returned, with its pool closed; the
\* next borrow attempt is made only when that create_pool has returned, after
\* as many completed close_pool and create_pool calls as failed attempts, and
\* it is made on the pool create_pool has just created and stored: an open
\* pool that did not exist before, so never the pool that was closed.
C14_RebuildBeforeRetry ==
    [][\A t \in Tasks :
        /\ task[t].pc = "acquire" /\ LastOutcome(task'[t]) = "pgerr"
              /\ Len(task'[t].log) = Len(task[t].log) + 1 =>
              /\ task'[t].pc = "closing"
              /\ task'[t].closes = task'[t].retry /\ task'[t].creates = task'[t].retry - 1
        /\ task[t].ctx = "enter" /\ task[t].pc # "closing" /\ task'[t].pc = "closing" =>
              task[t].pc = "acquire" /\ LastOutcome(task'[t]) = "pgerr"
        /\ task[t].ctx = "enter" /\ task[t].pc # "creating" /\ task'[t].pc = "creating" =>
              /\ task[t].pc = "closing" /\ task[t].tgt \notin poolOpen'
              /\ task'[t].creates = task'[t].closes /\ task'[t].closes = task'[t].retry
        /\ task[t].ctx = "enter" /\ task[t].pc # "acquire" /\ task'[t].pc = "acquire" =>
              /\ task[t].pc = "creating" /\ LastOutcome(task[t]) = "pgerr"
              /\ task'[t].retry = task[t].retry + 1
              /\ task'[t].closes = task[t].retry /\ task'[t].creates = task[t].retry
              /\ task'[t].rebuilt = task[t].retry
              /\ task'[t].tgt = db_pool' /\ task'[t].tgt \in poolOpen'
              /\ task'[t].tgt \notin 1..nPools /\ task'[t].tgt # task[t].tgt
    ]_vars

\* a caller is in its third borrow attempt, after two rebuild cycles, on the
\* pool the second rebuild created
C14_Witness ==
    \E t \in Tasks :
        /\ task[t].pc = "acquire" /\ task[t].retry = 3
        /\ task[t].log = <<"pgerr", "pgerr">>
        /\ task[t].closes = 2 /\ task[t].creates = 2 /\ task[t].rebuilt = 2
        /\ task[t].tgt = db_pool /\ db_pool \in poolOpen /\ nPools >= 3

\* caller u has a borrow in progress on pool p, or holds a connection of p
UsesPool(u, p) ==
    \/ task[u].pc = "acquire" /\ task[u].tgt = p
    \/ task[u].pc = "body" /\ task[u].got # NoConn /\ task[u].got[1] = p

\* C15: nothing in the manager keeps one caller's rebuild from closing the
\* pool another caller is using: whenever the close_pool inside caller t's
\* __aenter__ returns while caller u has a borrow in progress on that pool, or
\* holds a connection checked out of it, the pool is closed all the same, its
\* connections are gone, and u is left where it was (and such a step is
\* reachable: C15_Witness).
C15_RebuildClosesUsedPool ==
    [][\A t, u \in Tasks :
        /\ t # u /\ task[t].ctx = "enter" /\ task[t].pc = "closing"
        /\ task'[t].pc = "creating"
        /\ UsesPool(u, task[t].tgt)
        => /\ task[t].tgt \notin poolOpen'
           /\ {c \in out' : c[1] = task[t].tgt} = {}
           /\ task'[u] = task[u]
    ]_vars

\* caller t's rebuild has closed pool p and is creating the next pool, while
\* caller u's borrow on p is still in progress
C15_Witness ==
    \E t, u \in Tasks :
        /\ t # u
        /\ task[t].ctx = "enter" /\ task[t].pc = "creating"
        /\ task[t].tgt \notin poolOpen
        /\ task[u].ctx = "enter" /\ task[u].pc = "acquire" /\ task[u].tgt = task[t].tgt

\* C16, as claimed: a caller cancelled while __aenter__ awaits the borrow,
\* close_pool or create_pool leaves the acquisition with no connection checked
\* out on its behalf; and a scope cancelled after its connection was borrowed
\* has that connection released by __aexit__ (callers that call create_pool on
\* a manager whose pool is open or being created are left out, and so are
\* connections whose pool a rebuild has closed).
C16_CancelNoLeak ==
    [][\A t \in Tasks :
        /\ (task[t].ctx = "enter" /\ ev'.t = t /\ ev'.op = "enter" /\ ev'.err = Cancelled) =>
              /\ task'[t] = IdleTask /\ ev'.got = NoConn
              /\ out' \subseteq out
        /\ (task[t].pc = "body" /\ ev'.t = t /\ ev'.op = "exit" /\ ev'.rel.how = "cancel"
                /\ ~overlap' /\ task[t].got[1] = db_pool /\ db_pool \in poolOpen) =>
              /\ ev'.rel.called
              /\ task[t].got \notin out'
    ]_vars

\* C17: when every awaited pool operation completes, every __aenter__ that
\* was started ends (it returns a connection or raises), and at no point has
\* an __aenter__ made more than 3 borrow attempts, whatever mix of pool-level
\* failures, other failures and rebuild failures it meets.
C17_EnterTerminates ==
    /\ [](\A t \in Tasks : task[t].retry <= 3 /\ Len(task[t].log) <= 3)
    /\ [](ev.op = "enter" => ev.attempts <= 3 /\ Len(ev.log) <= 3)
    /\ \A t \in Tasks : (task[t].ctx = "enter") ~> (task[t].ctx # "enter")

\* an __aenter__ returned a connection from its third borrow attempt, after
\* two pool-level failures and two rebuilds
C17_Witness ==
    /\ ev.op = "enter" /\ ev.err = NoError
    /\ ev.attempts = 3 /\ ev.log = <<"pgerr", "pgerr", "ok">>
    /\ ev.got # NoConn /\ ev.rebuilt = 2

\* a step in which the rebuild inside caller t's __aenter__ failed: its
\* close_pool or its create_pool raised (and t was not cancelled)
RebuildFailed(t) ==
    /\ task[t].ctx = "enter" /\ task[t].pc \in {"closing", "creating"}
    /\ task'[t].pc = "idle" /\ ev'.err # Cancelled
    /\ nPools' = nPools

\* C18, as claimed: when close_pool or create_pool fails in a rebuild, the
\* __aenter__ ends in that step with that operation's 503 error, not the
\* retry-exceeded one, having made no further borrow attempt; after a failed
\* close_pool no create_pool was called; and after a failed create_pool the
\* manager refers to a closed pool, not to an open one (callers that call
\* create_pool on a manager whose pool is open or being created are left out).
C18_RebuildFailure ==
    [][\A t \in Tasks : RebuildFailed(t) =>
          /\ ev'.t = t /\ ev'.op = "enter"
          /\ ev'.err.kind = "http" /\ ev'.err.status_code = 503 /\ ev'.err # RetryExceeded
          /\ ev'.attempts = task[t].retry /\ Len(ev'.log) = task[t].retry
          /\ \/ /\ ev'.err \in {ClosePoolError(o, ErrText(o)) : o \in {"pgerr", "other"}}
                /\ task[t].pc = "closing"
                /\ ev'.creates = ev'.closes - 1
             \/ /\ ev'.err = CreatePoolError(ev'.err.text)
                /\ ev'.creates = ev'.closes
                /\ ~overlap' => db_pool' # NoPool /\ db_pool' \notin poolOpen'
    ]_vars

\* C19, as claimed: each release made by __aexit__ hands the tracked
\* connection to the pool it was borrowed from: the manager's pool handle at
\* that moment is the pool that produced self.conn (callers that call
\* create_pool on a manager whose pool is open or being created are left out,
\* and so are connections whose pool has been closed since).
C19_ReleaseToOwnPool ==
    (ev.op = "exit" /\ ev.rel.called /\ ev.rel.c # NoConn /\ ~overlap
        /\ ev.rel.c[1] \in poolOpen) =>
            ev.rel.pool = ev.rel.c[1]

====
